---- MODULE Spec2Model ----
(***************************************************************************)
(* A model of kguzek/scripts:                                              *)
(*   - misc/format_json.py: format_json_prettier, the prettier-style JSON  *)
(*     formatter (specification Spec);                                     *)
(*   - misc/factorio_changelog_generator.py: main, the changelog CLI       *)
(*     (specification MainSpec), and the line wrapping loop of             *)
(*     format_changelog_entry (specification WrapSpec).                    *)
(*                                                                         *)
(* Text is a sequence of characters; a character is a one-element string,  *)
(* except the one non-ASCII character of the alphabet, which is written    *)
(* "U+00E9" (it is one character: Len counts it once, as Python's len).    *)
(***************************************************************************)
EXTENDS Integers, Sequences, FiniteSets, TLC

VARIABLES
    \* format_json_prettier
    obj, indent, max_line_length, pc, result, checks,
    \* main of the changelog generator
    mpc, args, env, repo, exit_status, trace,
    \* format_changelog_entry, the wrapping loop of one entry
    wpc, entry, words, wi, current_line, current_length, is_first_line, lines

fmtVars == <<obj, indent, max_line_length, pc, result, checks>>
mainVars == <<mpc, args, env, repo, exit_status, trace>>
wrapVars == <<wpc, entry, words, wi, current_line, current_length, is_first_line, lines>>
vars == <<fmtVars, mainVars, wrapVars>>

(***************************************************************************)
(* Values: the Python objects json.load produces.  Every Value is a record *)
(* of the same shape, so that any two can be compared.                     *)
(***************************************************************************)
Node(t, b, n, s, keys, kids) ==
    [t |-> t, b |-> b, n |-> n, s |-> s, keys |-> keys, kids |-> kids]

Null == Node("null", FALSE, 0, <<>>, <<>>, <<>>)
Bool(b) == Node("bool", b, 0, <<>>, <<>>, <<>>)
Num(n) == Node("num", FALSE, n, <<>>, <<>>, <<>>)
Str(s) == Node("str", FALSE, 0, s, <<>>, <<>>)
List(kids) == Node("list", FALSE, 0, <<>>, <<>>, kids)
\* a dict keeps insertion order: keys[i] maps to kids[i], the keys distinct
Dict(keys, kids) == Node("dict", FALSE, 0, <<>>, keys, kids)

(***************************************************************************)
(* Text helpers.                                                           *)
(***************************************************************************)
RECURSIVE Spaces(_)
Spaces(n) == IF n <= 0 THEN <<>> ELSE <<" ">> \o Spaces(n - 1)

RECURSIVE Join(_, _)
Join(sep, parts) ==
    IF Len(parts) = 0 THEN <<>>
    ELSE IF Len(parts) = 1 THEN parts[1]
    ELSE parts[1] \o sep \o Join(sep, Tail(parts))

NL == <<"\n">>

Digit == <<"0", "1", "2", "3", "4", "5", "6", "7", "8", "9">>

RECURSIVE NatStr(_)
NatStr(n) == IF n < 10 THEN <<Digit[n + 1]>> ELSE NatStr(n \div 10) \o <<Digit[(n % 10) + 1]>>

IntStr(n) == IF n < 0 THEN <<"-">> \o NatStr(-n) ELSE NatStr(n)

(***************************************************************************)
(* json.dumps, as format_json.py calls it: on keys with the default        *)
(* ensure_ascii=True, on scalars and scalar-only lists with                *)
(* ensure_ascii=False; the default separators are ", " and ": ".           *)
(***************************************************************************)
EscapeChar(c, ensure_ascii) ==
    IF c = "\"" THEN <<"\\", "\"">>
    ELSE IF c = "\\" THEN <<"\\", "\\">>
    ELSE IF c = "\n" THEN <<"\\", "n">>
    ELSE IF c = "U+00E9" /\ ensure_ascii THEN <<"\\", "u", "0", "0", "e", "9">>
    ELSE <<c>>

RECURSIVE EscapeStr(_, _)
EscapeStr(s, ensure_ascii) ==
    IF Len(s) = 0 THEN <<>>
    ELSE EscapeChar(s[1], ensure_ascii) \o EscapeStr(Tail(s), ensure_ascii)

RECURSIVE JsonDumps(_, _)
JsonDumps(value, ensure_ascii) ==
    CASE value.t = "null" -> <<"n", "u", "l", "l">>
      [] value.t = "bool" -> IF value.b THEN <<"t", "r", "u", "e">>
                                         ELSE <<"f", "a", "l", "s", "e">>
      [] value.t = "num" -> IntStr(value.n)
      [] value.t = "str" -> <<"\"">> \o EscapeStr(value.s, ensure_ascii) \o <<"\"">>
      [] value.t = "list" ->
            <<"[">> \o Join(<<",", " ">>,
                            [i \in 1..Len(value.kids) |-> JsonDumps(value.kids[i], ensure_ascii)])
                    \o <<"]">>
      [] value.t = "dict" ->
            <<"{">> \o Join(<<",", " ">>,
                            [i \in 1..Len(value.kids) |->
                                JsonDumps(Str(value.keys[i]), ensure_ascii) \o <<":", " ">>
                                    \o JsonDumps(value.kids[i], ensure_ascii)])
                    \o <<"}">>

(***************************************************************************)
(* format_json_prettier (format_json.py).  indent and max_line_length are  *)
(* the closure variables of format_value.                                  *)
(***************************************************************************)
\* isinstance(x, (str, int, float, bool, type(None)))
IsSimple(x) == x.t \in {"str", "num", "bool", "null"}

\* a variant of IsSimpleArray without the all(...) test
IsSimpleArrayAnyList(v) == v.t = "list"

\* isinstance(v, list) and all(isinstance(x, ...) for x in v)
IsSimpleArray(v) == v.t = "list" /\ \A i \in 1..Len(v.kids) : IsSimple(v.kids[i])

\* a variant of IsEmpty without the special case for empty containers
IsEmptyNever(value) == FALSE

\* `if not value`: the empty mapping and the empty sequence
IsEmpty(value) == Len(value.kids) = 0

\* "," if i < len(items) - 1 else "", i counted from 1 here
Comma(i, n) == IF i < n THEN <<",">> ELSE <<>>

\* the right-hand side of the comparison of line 27
KeyBudget(current_indent, k) == max_line_length - current_indent - Len(k) - 5

\* a variant of FitsUnderKey with the comparison turned round
FitsUnderKeyReversed(json_str, current_indent, k) ==
    Len(json_str) >= KeyBudget(current_indent, k)

\* line 27: the key-aware test
FitsUnderKey(json_str, current_indent, k) == Len(json_str) <= KeyBudget(current_indent, k)

\* a variant of FitsOnLine with a strict comparison
FitsOnLineStrict(json_str) == Len(json_str) < max_line_length

\* line 43: the list branch's test
FitsOnLine(json_str) == Len(json_str) <= max_line_length

\* a variant of KeyText that quotes the key without escaping it
KeyTextUnescaped(k) == <<"\"">> \o k \o <<"\"">>

\* line 31: the text an entry's key is written as
KeyText(k) == JsonDumps(Str(k), TRUE)

\* a variant of ClosingLine that closes at the entries' indentation
ClosingLineAtEntries(current_indent, bracket) == Spaces(current_indent + indent) \o <<bracket>>

\* line 33 and line 54: the closing line of an expanded container
ClosingLine(current_indent, bracket) == Spaces(current_indent) \o <<bracket>>

\* lines 30-32: one entry of a mapping
DictEntryLine(current_indent, k, formatted_value, comma) ==
    Spaces(current_indent + indent) \o KeyText(k) \o <<":", " ">> \o formatted_value \o comma

\* lines 51-53: one element of an expanded sequence
ListItemLine(current_indent, formatted_item, comma) ==
    Spaces(current_indent + indent) \o formatted_item \o comma

\* the characters of the keys, in code point order
CodeOrder ==
    <<"\"", "\\", "a", "b", "d", "e", "i", "k", "m", "n", "o", "p", "r", "s", "t", "v", "z",
      "U+00E9">>

CodePoint(c) == CHOOSE i \in 1..Len(CodeOrder) : CodeOrder[i] = c

RECURSIVE KeyLess(_, _)
KeyLess(x, y) ==
    IF Len(y) = 0 THEN FALSE
    ELSE IF Len(x) = 0 THEN TRUE
    ELSE IF x[1] # y[1] THEN CodePoint(x[1]) < CodePoint(y[1])
    ELSE KeyLess(Tail(x), Tail(y))

\* a variant of Items that sorts the entries by key, as sorted(value.items())
ItemsSorted(value) ==
    LET n == Len(value.kids)
    IN  CHOOSE f \in [1..n -> 1..n] :
            \A i, j \in 1..n : i < j => KeyLess(value.keys[f[i]], value.keys[f[j]])

\* items = list(value.items()): the order the entries are written in
Items(value) == [i \in 1..Len(value.kids) |-> i]

RECURSIVE format_value(_, _)
format_value(value, current_indent) ==
    IF value.t = "dict" THEN
        IF IsEmpty(value) THEN <<"{", "}">>
        ELSE
            LET items == Items(value)
                n == Len(items)
                line(i) ==
                    LET k == value.keys[items[i]]
                        v == value.kids[items[i]]
                        formatted == format_value(v, current_indent + indent)
                        json_str == JsonDumps(v, FALSE)
                        formatted_value ==
                            IF IsSimpleArray(v) /\ FitsUnderKey(json_str, current_indent, k)
                            THEN json_str ELSE formatted
                    IN  DictEntryLine(current_indent, k, formatted_value, Comma(i, n))
            IN  Join(NL, <<<<"{">>>> \o [i \in 1..n |-> line(i)]
                             \o <<ClosingLine(current_indent, "}")>>)
    ELSE IF value.t = "list" THEN
        IF IsEmpty(value) THEN <<"[", "]">>
        ELSE IF IsSimpleArray(value) /\ FitsOnLine(JsonDumps(value, FALSE))
        THEN JsonDumps(value, FALSE)
        ELSE
            LET n == Len(value.kids)
                line(i) == ListItemLine(current_indent,
                                        format_value(value.kids[i], current_indent + indent),
                                        Comma(i, n))
            IN  Join(NL, <<<<"[">>>> \o [i \in 1..n |-> line(i)]
                             \o <<ClosingLine(current_indent, "]")>>)
    ELSE JsonDumps(value, FALSE)

\* The key-aware comparisons (line 27) format_value makes while formatting value:
\* for each, the key, the indentation of the mapping, the length compared,
\* the budget it is compared against and the outcome.
RECURSIVE KeyChecks(_, _)
KeyChecks(value, current_indent) ==
    IF value.t = "dict" THEN
        UNION { KeyChecks(value.kids[i], current_indent + indent)
                  \cup (IF IsSimpleArray(value.kids[i])
                        THEN {[k |-> value.keys[i],
                               current_indent |-> current_indent,
                               len |-> Len(JsonDumps(value.kids[i], FALSE)),
                               budget |-> KeyBudget(current_indent, value.keys[i]),
                               fits |-> FitsUnderKey(JsonDumps(value.kids[i], FALSE),
                                                     current_indent, value.keys[i])]}
                        ELSE {})
                : i \in 1..Len(value.kids) }
    ELSE IF value.t = "list" /\ ~IsEmpty(value)
            /\ ~(IsSimpleArray(value) /\ FitsOnLine(JsonDumps(value, FALSE))) THEN
        UNION { KeyChecks(value.kids[i], current_indent + indent) : i \in 1..Len(value.kids) }
    ELSE {}

(***************************************************************************)
(* json.loads: the parser the formatted text is read back with             *)
(* (update_info_json_version reads info.json with it).  The parsed tree    *)
(* keeps, for every node, where its text starts (from) and ends (to), and  *)
(* for a mapping where each key's text starts (kfrom).                     *)
(***************************************************************************)
ANode(t, b, n, s, keys, kids, from, to, kfrom) ==
    [t |-> t, b |-> b, n |-> n, s |-> s, keys |-> keys, kids |-> kids,
     from |-> from, to |-> to, kfrom |-> kfrom]

ErrNode == ANode("error", FALSE, 0, <<>>, <<>>, <<>>, 0, 0, <<>>)

Fail == [ok |-> FALSE, node |-> ErrNode, next |-> 0]

Ok(node, next) == [ok |-> TRUE, node |-> node, next |-> next]

At(txt, i) == IF i >= 1 /\ i <= Len(txt) THEN txt[i] ELSE "EOF"

Whitespace == {" ", "\n", "\t", "\r"}

RECURSIVE SkipWs(_, _)
SkipWs(txt, i) == IF At(txt, i) \in Whitespace THEN SkipWs(txt, i + 1) ELSE i

Match(txt, i, lit) ==
    /\ i + Len(lit) - 1 <= Len(txt)
    /\ SubSeq(txt, i, i + Len(lit) - 1) = lit

DigitValue(c) == CHOOSE d \in 0..9 : Digit[d + 1] = c

IsDigit(c) == \E d \in 1..10 : Digit[d] = c

\* the digits from i on: [n: their value, next: the index after them]
RECURSIVE ScanDigits(_, _, _)
ScanDigits(txt, i, acc) ==
    IF IsDigit(At(txt, i)) THEN ScanDigits(txt, i + 1, acc * 10 + DigitValue(txt[i]))
    ELSE [n |-> acc, next |-> i]

\* an integer: -? (0 | [1-9][0-9]*)
ParseNumber(txt, i) ==
    LET neg == At(txt, i) = "-"
        j == IF neg THEN i + 1 ELSE i
        d == IF At(txt, j) = "0" THEN [n |-> 0, next |-> j + 1] ELSE ScanDigits(txt, j, 0)
    IN  IF ~IsDigit(At(txt, j)) THEN Fail
        ELSE Ok(ANode("num", FALSE, IF neg THEN -d.n ELSE d.n, <<>>, <<>>, <<>>,
                      i, d.next - 1, <<>>), d.next)

\* the characters that end a run of plain characters inside a string
StringStops == {"\"", "\\", "\n", "\t", "\r", "EOF"}

\* the first index from j on that holds none of the plain characters
RunEnd(txt, j) ==
    CHOOSE k \in j..(Len(txt) + 1) :
        /\ At(txt, k) \in StringStops
        /\ \A m \in j..(k - 1) : At(txt, m) \notin StringStops

\* the characters of a string from j on, up to its closing quote
RECURSIVE ScanString(_, _, _)
ScanString(txt, j, acc) ==
    LET p == RunEnd(txt, j)
        run == acc \o SubSeq(txt, j, p - 1)
        c == At(txt, p)
        e == At(txt, p + 1)
    IN  IF c = "\"" THEN [ok |-> TRUE, s |-> run, next |-> p + 1]
        ELSE IF c # "\\" THEN [ok |-> FALSE, s |-> <<>>, next |-> 0]
        ELSE IF e \in {"\"", "\\", "/"} THEN ScanString(txt, p + 2, Append(run, e))
        ELSE IF e = "n" THEN ScanString(txt, p + 2, Append(run, "\n"))
        ELSE IF e = "t" THEN ScanString(txt, p + 2, Append(run, "\t"))
        ELSE IF e = "r" THEN ScanString(txt, p + 2, Append(run, "\r"))
        ELSE IF e = "u" /\ Match(txt, p + 2, <<"0", "0", "e", "9">>)
             THEN ScanString(txt, p + 6, Append(run, "U+00E9"))
        ELSE [ok |-> FALSE, s |-> <<>>, next |-> 0]

\* the index of key k in keys, or 0
IndexOf(keys, k) ==
    IF \E i \in 1..Len(keys) : keys[i] = k
    THEN CHOOSE i \in 1..Len(keys) : keys[i] = k ELSE 0

RECURSIVE ParseValue(_, _), ParseElements(_, _, _, _), ParseMembers(_, _, _, _, _, _)
\* the Value whose text starts at i (whitespace before it already skipped)
ParseValue(txt, i) ==
    LET c == At(txt, i)
        scalar(t, b, lit) ==
            IF Match(txt, i, lit)
            THEN Ok(ANode(t, b, 0, <<>>, <<>>, <<>>, i, i + Len(lit) - 1, <<>>), i + Len(lit))
            ELSE Fail
    IN  IF c = "n" THEN scalar("null", FALSE, <<"n", "u", "l", "l">>)
        ELSE IF c = "t" THEN scalar("bool", TRUE, <<"t", "r", "u", "e">>)
        ELSE IF c = "f" THEN scalar("bool", FALSE, <<"f", "a", "l", "s", "e">>)
        ELSE IF c = "-" \/ IsDigit(c) THEN ParseNumber(txt, i)
        ELSE IF c = "\"" THEN
            LET r == ScanString(txt, i + 1, <<>>)
            IN  IF r.ok THEN Ok(ANode("str", FALSE, 0, r.s, <<>>, <<>>, i, r.next - 1, <<>>), r.next)
                ELSE Fail
        ELSE IF c = "[" THEN
            LET j == SkipWs(txt, i + 1)
            IN  IF At(txt, j) = "]"
                THEN Ok(ANode("list", FALSE, 0, <<>>, <<>>, <<>>, i, j, <<>>), j + 1)
                ELSE ParseElements(txt, j, <<>>, i)
        ELSE IF c = "{" THEN
            LET j == SkipWs(txt, i + 1)
            IN  IF At(txt, j) = "}"
                THEN Ok(ANode("dict", FALSE, 0, <<>>, <<>>, <<>>, i, j, <<>>), j + 1)
                ELSE ParseMembers(txt, j, <<>>, <<>>, <<>>, i)
        ELSE Fail

\* the elements of a list from j on, kids those already read
ParseElements(txt, j, kids, from) ==
    LET r == ParseValue(txt, j)
        k == SkipWs(txt, r.next)
        c == At(txt, k)
        all == Append(kids, r.node)
    IN  IF ~r.ok THEN Fail
        ELSE IF c = "," THEN ParseElements(txt, SkipWs(txt, k + 1), all, from)
        ELSE IF c = "]" THEN Ok(ANode("list", FALSE, 0, <<>>, <<>>, all, from, k, <<>>), k + 1)
        ELSE Fail

\* the entries of a mapping from j on; a key read twice keeps its first place
\* and takes the later value, as a Python dict does
ParseMembers(txt, j, keys, kids, kfrom, from) ==
    LET key == ScanString(txt, j + 1, <<>>)
        colon == SkipWs(txt, key.next)
        r == ParseValue(txt, SkipWs(txt, colon + 1))
        k == SkipWs(txt, r.next)
        c == At(txt, k)
        old == IndexOf(keys, key.s)
        keys2 == IF old = 0 THEN Append(keys, key.s) ELSE keys
        kids2 == IF old = 0 THEN Append(kids, r.node) ELSE [kids EXCEPT ![old] = r.node]
        kfrom2 == IF old = 0 THEN Append(kfrom, j) ELSE [kfrom EXCEPT ![old] = j]
    IN  IF At(txt, j) # "\"" THEN Fail
        ELSE IF ~key.ok THEN Fail
        ELSE IF At(txt, colon) # ":" THEN Fail
        ELSE IF ~r.ok THEN Fail
        ELSE IF c = "," THEN ParseMembers(txt, SkipWs(txt, k + 1), keys2, kids2, kfrom2, from)
        ELSE IF c = "}" THEN Ok(ANode("dict", FALSE, 0, <<>>, keys2, kids2, from, k, kfrom2), k + 1)
        ELSE Fail

\* json.loads(txt): the whole text is one Value, whitespace around it allowed
JsonLoads(txt) ==
    LET r == ParseValue(txt, SkipWs(txt, 1))
    IN  IF r.ok /\ SkipWs(txt, r.next) = Len(txt) + 1 THEN r ELSE Fail

\* the Value of a parsed tree: the tree without the places of its text
RECURSIVE Strip(_)
Strip(a) == Node(a.t, a.b, a.n, a.s, a.keys, [i \in 1..Len(a.kids) |-> Strip(a.kids[i])])

(***************************************************************************)
(* The inputs of format_json_prettier that are enumerated: every Value of  *)
(* at most MaxNodes nodes over Scalars and Keys, and the Samples.          *)
(***************************************************************************)
MaxNodes == 4

Scalars == {Null, Bool(FALSE), Str(<<"q", "\"", "U+00E9">>)}

Keys == {<<"b">>, <<"k", "a">>}

\* the ways of choosing n distinct keys, in every insertion order
RECURSIVE KeySeqs(_, _)
KeySeqs(n, avail) ==
    IF n = 0 THEN {<<>>}
    ELSE UNION { { <<k>> \o rest : rest \in KeySeqs(n - 1, avail \ {k}) } : k \in avail }

RECURSIVE ValuesOfSize(_), SeqsOfSize(_)
\* the sequences of Values whose node counts add up to total
SeqsOfSize(total) ==
    IF total = 0 THEN {<<>>}
    ELSE UNION { { <<v>> \o rest : v \in ValuesOfSize(k), rest \in SeqsOfSize(total - k) }
                 : k \in 1..total }

\* the Values of exactly n nodes
ValuesOfSize(n) ==
    (IF n = 1 THEN Scalars ELSE {})
        \cup { List(kids) : kids \in SeqsOfSize(n - 1) }
        \cup UNION { { Dict(keys, kids) : keys \in KeySeqs(Len(kids), Keys) }
                     : kids \in SeqsOfSize(n - 1) }

Rep(c, n) == [i \in 1..n |-> c]

\* a scalar-only list whose compact rendering is n characters long (n >= 4)
ListOfLen(n) == List(<<Str(Rep("x", n - 4))>>)

Samples ==
    { \* the example of the specification, {"a": [1, 2, 3]}
      Dict(<<<<"a">>>>, <<List(<<Num(1), Num(2), Num(3)>>)>>),
      \* compact renderings of 74, 80 and 81 characters, alone, under a key, in a list
      ListOfLen(80), ListOfLen(81),
      Dict(<<<<"a">>, <<"z">>>>, <<ListOfLen(74), ListOfLen(75)>>),
      Dict(<<<<"a">>>>, <<ListOfLen(80)>>),
      Dict(<<<<"a">>>>, <<ListOfLen(81)>>),
      List(<<List(<<>>), ListOfLen(80), ListOfLen(81)>>),
      \* the other scalars, and keys that json.dumps escapes
      List(<<Bool(TRUE), Num(0), Num(305), Str(<<>>), Str(<<"\\", "\n">>)>>),
      Dict(<<<<"U+00E9">>, <<"\"", "\\">>, <<>>>>,
           <<Str(<<"U+00E9">>), List(<<Num(7)>>), Dict(<<<<"b">>>>, <<List(<<Null, Null>>)>>)>>),
      \* an info.json
      Dict(<<<<"n", "a", "m", "e">>, <<"v", "e", "r", "s", "i", "o", "n">>, <<"d", "e", "p", "s">>>>,
           <<Str(<<"m", "o", "d">>), Str(<<"1", ".", "0", ".", "2">>),
             List(<<Str(<<"b", "a", "s", "e">>), Dict(<<<<"o", "p", "t">>>>, <<Bool(TRUE)>>)>>)>>) }

Inputs == Samples \cup UNION { ValuesOfSize(n) : n \in 1..MaxNodes }

Indents == {0, 2, 3}

MaxLineLengths == {6, 12, 80}

(***************************************************************************)
(* Specification Spec: one call of format_json_prettier.                   *)
(***************************************************************************)
FmtIdle ==
    /\ obj = Null /\ indent = 2 /\ max_line_length = 80
    /\ pc = "idle" /\ result = <<>> /\ checks = {}

NoGitFailure == "none"

CleanRepo == [changelog_written |-> FALSE, info_written |-> FALSE, staged |-> FALSE,
              committed |-> FALSE, tag_moved |-> FALSE]

MainIdle ==
    /\ mpc = "idle" /\ args = [commit |-> FALSE, bump |-> FALSE]
    /\ env = [dirty |-> FALSE, tags |-> 0, info |-> "ok", fail |-> NoGitFailure]
    /\ repo = CleanRepo /\ exit_status = 0 /\ trace = <<>>

WrapIdle ==
    /\ wpc = "idle" /\ entry = <<>> /\ words = <<>> /\ wi = 0 /\ current_line = <<>>
    /\ current_length = 0 /\ is_first_line = TRUE /\ lines = <<>>

Init ==
    /\ obj \in Inputs
    /\ indent \in Indents
    /\ max_line_length \in MaxLineLengths
    /\ pc = "start"
    /\ result = <<>>
    /\ checks = {}
    /\ MainIdle
    /\ WrapIdle

\* format_json_prettier(obj, indent, max_line_length): return format_value(obj, 0)
FormatJsonPrettier ==
    /\ pc = "start"
    /\ result' = format_value(obj, 0)
    /\ checks' = KeyChecks(obj, 0)
    /\ pc' = "done"
    /\ UNCHANGED <<obj, indent, max_line_length, mainVars, wrapVars>>

Next == FormatJsonPrettier

Spec == Init /\ [][Next]_vars

(***************************************************************************)
(* Reading the formatted text: the parsed tree of result, the text of a    *)
(* node, the nodes of the tree with the number of containers around each.  *)
(***************************************************************************)
Parsed == JsonLoads(result)

\* the formatted text parses, and to the Value that was formatted
ReadsBack(p) == p.ok /\ Strip(p.node) = obj

TextOf(a) == SubSeq(result, a.from, a.to)

CompactOf(a) == JsonDumps(Strip(a), FALSE)

RECURSIVE SubNodes(_, _)
SubNodes(a, d) ==
    {[node |-> a, d |-> d]}
        \cup UNION { SubNodes(a.kids[i], d + 1) : i \in 1..Len(a.kids) }

AllNodes(p) == SubNodes(p.node, 0)

IsContainer(a) == a.t \in {"dict", "list"}

IsScalarList(a) == a.t = "list" /\ Len(a.kids) > 0 /\ \A i \in 1..Len(a.kids) : ~IsContainer(a.kids[i])

IsNestedList(a) == a.t = "list" /\ \E i \in 1..Len(a.kids) : IsContainer(a.kids[i])

\* position p is the first character of its line, after exactly n spaces
StartsLineAt(p, n) ==
    /\ p - n - 1 >= 1
    /\ result[p - n - 1] = "\n"
    /\ \A m \in (p - n)..(p - 1) : result[m] = " "

StartsLine(p) == \E n \in 0..p : StartsLineAt(p, n)

\* where entry i of a container starts: its key in a mapping, its element in a sequence
EntryStart(a, i) == IF a.t = "dict" THEN a.kfrom[i] ELSE a.kids[i].from

\* entry i is followed by a comma and the end of the line, the last by the end of the line
EntryEnds(a, i) ==
    LET e == a.kids[i].to
    IN  IF i < Len(a.kids) THEN At(result, e + 1) = "," /\ At(result, e + 2) = "\n"
        ELSE At(result, e + 1) = "\n"

\* the expanded form: the bracket ends its line, every entry starts a line of
\* its own, the closing bracket starts its line
ExpandedForm(a) ==
    /\ At(result, a.from + 1) = "\n"
    /\ \A i \in 1..Len(a.kids) : StartsLine(EntryStart(a, i)) /\ EntryEnds(a, i)
    /\ StartsLine(a.to)

\* the first and the last position of the line position p is on
LineFirst(p) ==
    IF \E m \in 1..(p - 1) : result[m] = "\n"
    THEN 1 + CHOOSE m \in 1..(p - 1) : result[m] = "\n" /\ \A k \in (m + 1)..(p - 1) : result[k] # "\n"
    ELSE 1

LineLast(p) ==
    IF \E m \in p..Len(result) : result[m] = "\n"
    THEN (CHOOSE m \in p..Len(result) : result[m] = "\n" /\ \A k \in p..(m - 1) : result[k] # "\n") - 1
    ELSE Len(result)

LineLength(p) == LineLast(p) - LineFirst(p) + 1

\* entry i of mapping a is a scalar-only sequence written inline after its key
InlineUnderKey(a, i) ==
    SubSeq(result, a.kfrom[i], a.kids[i].to)
        = KeyText(a.keys[i]) \o <<":", " ">> \o CompactOf(a.kids[i])

Done == pc = "done"

(***************************************************************************)
(* C1  Round-trip: parsing the text format_json_prettier returns, as JSON, *)
(* yields a value equal to the one formatted: same nesting, same keys and  *)
(* elements in the same order, same scalars.                               *)
(***************************************************************************)
C1_RoundTrip == Done => LET p == Parsed IN p.ok /\ Strip(p.node) = obj

C1_Witness ==
    /\ Done /\ indent = 2 /\ max_line_length = 12
    /\ obj = Dict(<<<<"U+00E9">>, <<"\"", "\\">>, <<>>>>,
                  <<Str(<<"U+00E9">>), List(<<Num(7)>>),
                    Dict(<<<<"b">>>>, <<List(<<Null, Null>>)>>)>>)
    /\ Len(result) > Len(JsonDumps(obj, FALSE))
    /\ Strip(JsonLoads(result).node) = obj

(***************************************************************************)
(* C2  Key-aware inline threshold, as claimed: every key-aware comparison  *)
(* made for a scalar-only sequence under key k, in a mapping formatted at  *)
(* currentIndent, is against the budget                                    *)
(* max_line_length - currentIndent - indent - len(k) - 5, and an entry     *)
(* whose compact rendering is within that budget is written on one line as *)
(* "k": <compact rendering>.                                               *)
(***************************************************************************)
ClaimedKeyBudget(current_indent, k) == max_line_length - current_indent - indent - Len(k) - 5

C2_KeyAwareThreshold ==
    Done =>
        LET p == Parsed
        IN  /\ \A c \in checks : c.budget = ClaimedKeyBudget(c.current_indent, c.k)
            /\ ReadsBack(p)
            /\ \A x \in AllNodes(p) :
                  x.node.t = "dict" =>
                      \A i \in 1..Len(x.node.kids) :
                          (/\ IsScalarList(x.node.kids[i])
                           /\ Len(CompactOf(x.node.kids[i]))
                                  <= ClaimedKeyBudget(x.d * indent, x.node.keys[i]))
                              => InlineUnderKey(x.node, i)

(***************************************************************************)
(* C3  Compact array threshold: every non-empty scalar-only sequence of    *)
(* the input, wherever it occurs, is written as its compact rendering when *)
(* that is at most max_line_length characters long, and expanded, one      *)
(* element per line, when it is longer.                                    *)
(***************************************************************************)
C3_CompactArrayThreshold ==
    Done =>
        LET p == Parsed
        IN  /\ ReadsBack(p)
            /\ \A x \in AllNodes(p) :
                  IsScalarList(x.node) =>
                      IF Len(CompactOf(x.node)) <= max_line_length
                      THEN TextOf(x.node) = CompactOf(x.node)
                      ELSE ExpandedForm(x.node)

\* at 80: a rendering of 80 characters is inlined, one of 81 expanded
C3_Witness ==
    /\ Done /\ max_line_length = 80
    /\ obj = List(<<List(<<>>), ListOfLen(80), ListOfLen(81)>>)
    /\ Parsed.ok
    /\ Len(CompactOf(Parsed.node.kids[2])) = 80
    /\ TextOf(Parsed.node.kids[2]) = CompactOf(Parsed.node.kids[2])
    /\ Len(CompactOf(Parsed.node.kids[3])) = 81
    /\ ExpandedForm(Parsed.node.kids[3])
    /\ TextOf(Parsed.node.kids[3]) # CompactOf(Parsed.node.kids[3])

(***************************************************************************)
(* C4  Ordering preserved: at every nesting level the keys of a mapping    *)
(* appear in the text in the mapping's insertion order, and the elements   *)
(* of a sequence in input order.                                           *)
(***************************************************************************)
RECURSIVE SameOrder(_, _)
SameOrder(a, v) ==
    /\ a.t = v.t
    /\ Len(a.kids) = Len(v.kids)
    /\ \A i \in 1..Len(a.kids) :
          /\ i > 1 => EntryStart(a, i - 1) < EntryStart(a, i)
          /\ a.t = "dict" => Match(result, a.kfrom[i], KeyText(v.keys[i]))
          /\ IF IsContainer(v.kids[i]) THEN SameOrder(a.kids[i], v.kids[i])
             ELSE TextOf(a.kids[i]) = JsonDumps(v.kids[i], FALSE)

C4_OrderingPreserved == Done => LET p == Parsed IN p.ok /\ SameOrder(p.node, obj)

\* the keys inserted as "ka" then "b" are written in that order, not sorted
C4_Witness ==
    /\ Done
    /\ obj = Dict(<<<<"k", "a">>, <<"b">>>>, <<List(<<Null>>), Bool(FALSE)>>)
    /\ Parsed.ok
    /\ Parsed.node.keys = <<<<"k", "a">>, <<"b">>>>
    /\ Parsed.node.kfrom[1] < Parsed.node.kfrom[2]

(***************************************************************************)
(* C5  Nested expansion: every sequence with at least one element that is  *)
(* a mapping or a sequence (an empty one included) is written expanded,    *)
(* whatever max_line_length and however short its compact rendering.       *)
(***************************************************************************)
C5_NestedExpansion ==
    Done =>
        LET p == Parsed
        IN  /\ ReadsBack(p)
            /\ \A x \in AllNodes(p) :
                  IsNestedList(x.node) =>
                      /\ ExpandedForm(x.node)
                      /\ TextOf(x.node) # CompactOf(x.node)

\* {"b": [[]]} at max_line_length 80: the compact rendering is 4 characters
C5_Witness ==
    /\ Done /\ max_line_length = 80
    /\ obj = Dict(<<<<"b">>>>, <<List(<<List(<<>>)>>)>>)
    /\ Parsed.ok
    /\ Len(CompactOf(Parsed.node.kids[1])) = 4
    /\ ExpandedForm(Parsed.node.kids[1])

(***************************************************************************)
(* C6  Empty containers: an empty mapping is written as exactly {} and an  *)
(* empty sequence as exactly [], at top level and at every nested place.   *)
(***************************************************************************)
C6_EmptyContainers ==
    Done =>
        LET p == Parsed
        IN  /\ ReadsBack(p)
            /\ \A x \in AllNodes(p) :
                  (IsContainer(x.node) /\ Len(x.node.kids) = 0) =>
                      TextOf(x.node) = (IF x.node.t = "dict" THEN <<"{", "}">> ELSE <<"[", "]">>)

C6_Witness ==
    /\ Done
    /\ obj = Dict(<<<<"b">>, <<"k", "a">>>>, <<List(<<>>), List(<<Dict(<<>>, <<>>)>>)>>)
    /\ Parsed.ok
    /\ TextOf(Parsed.node.kids[1]) = <<"[", "]">>
    /\ TextOf(Parsed.node.kids[2].kids[1]) = <<"{", "}">>

(***************************************************************************)
(* C7  Line-length budget, as claimed: at max_line_length 80 and any       *)
(* indent, whenever a scalar-only sequence under a key whose JSON encoding *)
(* needs no escapes is written inline in a mapping, the whole line         *)
(* (indentation, quoted key, ": ", compact rendering, trailing comma if    *)
(* any) is at most max_line_length characters long.                        *)
(***************************************************************************)
C7_InlineLineWithinBudget ==
    (Done /\ max_line_length = 80) =>
        LET p == Parsed
        IN  /\ ReadsBack(p)
            /\ \A x \in AllNodes(p) :
                  x.node.t = "dict" =>
                      \A i \in 1..Len(x.node.kids) :
                          (/\ IsScalarList(x.node.kids[i])
                           /\ Len(KeyText(x.node.keys[i])) = Len(x.node.keys[i]) + 2
                           /\ InlineUnderKey(x.node, i))
                              => LineLength(x.node.kfrom[i]) <= max_line_length

(***************************************************************************)
(* C8  Expanded layout: in every expanded mapping or sequence enclosed by  *)
(* d containers, each entry starts a new line with exactly (d + 1) *       *)
(* indent spaces, every entry but the last is followed by a comma and the  *)
(* last by none, and the closing bracket is on its own line after exactly  *)
(* d * indent spaces.                                                      *)
(***************************************************************************)
IsExpanded(a) == IsContainer(a) /\ Len(a.kids) > 0 /\ TextOf(a) # CompactOf(a)

ExpandedAt(a, c) ==
    /\ At(result, a.from + 1) = "\n"
    /\ \A i \in 1..Len(a.kids) : StartsLineAt(EntryStart(a, i), c + indent) /\ EntryEnds(a, i)
    /\ StartsLineAt(a.to, c)
    /\ At(result, a.to + 1) \in {"EOF", ",", "\n"}

C8_ExpandedLayout ==
    Done =>
        LET p == Parsed
        IN  /\ ReadsBack(p)
            /\ \A x \in AllNodes(p) : IsExpanded(x.node) => ExpandedAt(x.node, x.d * indent)

\* [{"b": [false]}] at indent 3 and max_line_length 6: three expanded
\* containers, the innermost closing at 6 spaces, its element at 9
C8_Witness ==
    /\ Done /\ indent = 3 /\ max_line_length = 6
    /\ obj = List(<<Dict(<<<<"b">>>>, <<List(<<Bool(FALSE)>>)>>)>>)
    /\ Parsed.ok
    /\ IsExpanded(Parsed.node.kids[1].kids[1])
    /\ StartsLineAt(Parsed.node.kids[1].kids[1].to, 6)
    /\ StartsLineAt(Parsed.node.kids[1].kids[1].kids[1].from, 9)

(***************************************************************************)
(* Specification MainSpec: one run of main of the changelog generator      *)
(* (factorio_changelog_generator.py).  The environment of the run is       *)
(* fixed when it starts: the flags given, whether the working tree is      *)
(* dirty, how many tags the repository has, the state of info.json, and    *)
(* which git command, if any, fails (run_git_command then exits with 1).   *)
(* trace records what has happened, in order.                              *)
(***************************************************************************)
MaxTags == 2

\* the git commands of a run, by the place that issues them
GitCalls == {"status", "tag_list_generate", "log", "tag_list_bump", "tag_list_commit",
             "add", "commit", "tag_force"}

InfoStates == {"ok", "missing", "invalid"}

MainInit ==
    /\ mpc = "validate"
    /\ args \in [commit : BOOLEAN, bump : BOOLEAN]
    /\ env \in [dirty : BOOLEAN, tags : 0..MaxTags, info : InfoStates,
                fail : GitCalls \cup {NoGitFailure}]
    /\ repo = CleanRepo
    /\ exit_status = 0
    /\ trace = <<>>
    /\ FmtIdle
    /\ WrapIdle

\* sys.exit(status)
Exit(status) == mpc' = "exited" /\ exit_status' = status

\* run_git_command: a failing git command ends the process with status 1
GitFails(call) == env.fail = call

\* line 353: args.commit and not args.bump
CommitWithoutBump == args.commit /\ ~args.bump

\* a variant of AbortAfterBump that goes on after a failed update
AbortAfterBumpNever(success) == FALSE

\* line 370: not success and args.commit
AbortAfterBump(success) == ~success /\ args.commit

\* lines 352-355: --commit requires --bump
ValidateArgs ==
    /\ mpc = "validate"
    /\ IF CommitWithoutBump
       THEN Exit(1) /\ UNCHANGED trace
       ELSE /\ mpc' = IF args.commit THEN "check_tree" ELSE "generate"
            /\ trace' = IF args.commit THEN Append(trace, "commit_and_bump_given") ELSE trace
            /\ UNCHANGED exit_status
    /\ UNCHANGED <<args, env, repo, fmtVars, wrapVars>>

\* lines 358-364 and is_working_tree_dirty: the tree must be clean under --commit
CheckWorkingTree ==
    /\ mpc = "check_tree"
    /\ IF GitFails("status") THEN Exit(1) /\ UNCHANGED trace
       ELSE IF env.dirty THEN Exit(1) /\ trace' = Append(trace, "tree_dirty")
       ELSE /\ mpc' = "generate"
            /\ trace' = Append(trace, "tree_clean")
            /\ UNCHANGED exit_status
    /\ UNCHANGED <<args, env, repo, fmtVars, wrapVars>>

\* lines 366 and 191-265: generate_changelog; without tags it exits with 1,
\* otherwise it writes the changelog file
GenerateChangelog ==
    /\ mpc = "generate"
    /\ IF GitFails("tag_list_generate") \/ env.tags = 0 \/ GitFails("log")
       THEN Exit(1) /\ UNCHANGED <<trace, repo>>
       ELSE /\ repo' = [repo EXCEPT !.changelog_written = TRUE]
            /\ trace' = Append(trace, "changelog_written")
            /\ IF args.bump THEN mpc' = "bump" /\ UNCHANGED exit_status
               ELSE IF args.commit THEN mpc' = "commit" /\ UNCHANGED exit_status
               ELSE Exit(0)
    /\ UNCHANGED <<args, env, fmtVars, wrapVars>>

\* lines 284-322: update_info_json_version returns True after writing info.json
UpdateSucceeds == env.tags > 0 /\ env.info = "ok"

\* lines 368-372: --bump; a failed update ends the run under --commit
UpdateInfoJson ==
    /\ mpc = "bump"
    /\ IF GitFails("tag_list_bump") THEN Exit(1) /\ UNCHANGED <<trace, repo>>
       ELSE LET success == UpdateSucceeds
            IN  /\ repo' = [repo EXCEPT !.info_written = success]
                /\ trace' = Append(trace, IF success THEN "info_updated" ELSE "info_failed")
                /\ IF AbortAfterBump(success) THEN Exit(1)
                   ELSE IF args.commit THEN mpc' = "commit" /\ UNCHANGED exit_status
                   ELSE Exit(0)
    /\ UNCHANGED <<args, env, fmtVars, wrapVars>>

\* lines 374-379: under --commit, the latest tag is looked up for the commit
LookUpLatestTag ==
    /\ mpc = "commit"
    /\ IF GitFails("tag_list_commit") THEN Exit(1)
       ELSE IF env.tags > 0 THEN mpc' = "git_add" /\ UNCHANGED exit_status
       ELSE Exit(0)
    /\ UNCHANGED <<args, env, repo, trace, fmtVars, wrapVars>>

\* line 271: git add <changelog> info.json
GitAdd ==
    /\ mpc = "git_add"
    /\ IF GitFails("add") THEN Exit(1) /\ UNCHANGED <<repo, trace>>
       ELSE /\ repo' = [repo EXCEPT !.staged = TRUE]
            /\ trace' = Append(trace, "git_add")
            /\ mpc' = "git_commit" /\ UNCHANGED exit_status
    /\ UNCHANGED <<args, env, fmtVars, wrapVars>>

\* lines 274-275: git commit --message "release: <tag>"
GitCommit ==
    /\ mpc = "git_commit"
    /\ IF GitFails("commit") THEN Exit(1) /\ UNCHANGED <<repo, trace>>
       ELSE /\ repo' = [repo EXCEPT !.committed = TRUE, !.staged = FALSE]
            /\ trace' = Append(trace, "git_commit")
            /\ mpc' = "git_tag" /\ UNCHANGED exit_status
    /\ UNCHANGED <<args, env, fmtVars, wrapVars>>

\* line 278: git tag --force <tag>; then main returns
GitTag ==
    /\ mpc = "git_tag"
    /\ IF GitFails("tag_force") THEN Exit(1) /\ UNCHANGED <<repo, trace>>
       ELSE /\ repo' = [repo EXCEPT !.tag_moved = TRUE]
            /\ trace' = Append(trace, "git_tag")
            /\ Exit(0)
    /\ UNCHANGED <<args, env, fmtVars, wrapVars>>

MainNext ==
    \/ ValidateArgs
    \/ CheckWorkingTree
    \/ GenerateChangelog
    \/ UpdateInfoJson
    \/ LookUpLatestTag
    \/ GitAdd
    \/ GitCommit
    \/ GitTag

MainSpec == MainInit /\ [][MainNext]_vars

(***************************************************************************)
(* C9  Release-commit gating: the commands of create_release_commit (git   *)
(* add, git commit, git tag --force) run only after, in this order,        *)
(* --commit and --bump were both given, is_working_tree_dirty returned     *)
(* False, generate_changelog wrote the changelog file and                  *)
(* update_info_json_version returned True; a run in which one of these did *)
(* not happen makes no commit and moves no tag, and under --commit it      *)
(* exits with status 1.                                                    *)
(***************************************************************************)
ReleaseSteps == {"git_add", "git_commit", "git_tag"}

Gates == <<"commit_and_bump_given", "tree_clean", "changelog_written", "info_updated">>

\* the four gates occur, in order, among the first j - 1 events
GatesPassedBefore(j) ==
    \E i1, i2, i3, i4 \in 1..(j - 1) :
        /\ i1 < i2 /\ i2 < i3 /\ i3 < i4
        /\ trace[i1] = Gates[1] /\ trace[i2] = Gates[2]
        /\ trace[i3] = Gates[3] /\ trace[i4] = Gates[4]

C9_ReleaseCommitGated ==
    /\ \A j \in 1..Len(trace) : trace[j] \in ReleaseSteps => GatesPassedBefore(j)
    /\ ~GatesPassedBefore(Len(trace) + 1) =>
          /\ ~repo.staged /\ ~repo.committed /\ ~repo.tag_moved
          /\ (mpc = "exited" /\ args.commit) => exit_status = 1
    /\ (repo.committed \/ repo.tag_moved) =>
          /\ args.commit /\ args.bump /\ ~env.dirty /\ env.tags > 0 /\ env.info = "ok"
          /\ repo.changelog_written /\ repo.info_written

\* a run that made the release commit and moved the tag
C9_Witness ==
    /\ mpc = "exited" /\ exit_status = 0
    /\ repo.committed /\ repo.tag_moved
    /\ trace = <<"commit_and_bump_given", "tree_clean", "changelog_written", "info_updated",
                 "git_add", "git_commit", "git_tag">>

(***************************************************************************)
(* Specification WrapSpec: the line wrapping loop of                       *)
(* format_changelog_entry (lines 150-186) on one entry; lines holds the    *)
(* lines the loop appends for that entry.                                  *)
(***************************************************************************)
MaxWords == 4

WordLengths == {1, 36, 37, 74, 75}

Letters == <<"a", "b", "c", "d", "e", "f", "g", "h">>

Separators == {<<" ">>, <<" ", " ">>}

\* the entries: up to MaxWords words of the lengths above, the i-th word made
\* of the i-th letter, separated by one of the separators
EntriesOf(n) ==
    { Join(sep, [i \in 1..n |-> Rep(Letters[i], lens[i])]) :
        lens \in [1..n -> WordLengths], sep \in Separators }

Entries == UNION { EntriesOf(n) : n \in 0..MaxWords }

\* str.split(): the maximal runs of characters that are not whitespace
WordStarts(text) ==
    { i \in 1..Len(text) : text[i] # " " /\ (i = 1 \/ text[i - 1] = " ") }

WordEnds(text) ==
    { i \in 1..Len(text) : text[i] # " " /\ (i = Len(text) \/ text[i + 1] = " ") }

\* the k-th smallest element of a set of numbers
Nth(S, k) == CHOOSE x \in S : Cardinality({y \in S : y <= x}) = k

Split(text) ==
    [k \in 1..Cardinality(WordStarts(text)) |->
        SubSeq(text, Nth(WordStarts(text), k), Nth(WordEnds(text), k))]

WrapInit ==
    /\ wpc = "split"
    /\ entry \in Entries
    /\ words = <<>> /\ wi = 0 /\ current_line = <<>> /\ current_length = 0
    /\ is_first_line = TRUE /\ lines = <<>>
    /\ FmtIdle
    /\ MainIdle

\* a variant of WordLength that forgets the separating space
WordLengthNoSpace(word) == Len(word)

\* line 158: word_length = len(word) + 1
WordLength(word) == Len(word) + 1

\* line 167: the word still fits on the current line
FitsOnCurrentLine(length, word_length) == length + word_length <= 80

\* lines 164, 166 and 179: the length of a line that holds its first word
FirstWordLength(word) == 6 + Len(word)

\* lines 173-177 and 183-186: the line written for the words gathered
WrittenLine(first, line_words) ==
    (IF first THEN <<" ", " ", " ", " ", "-", " ">> ELSE Spaces(6)) \o Join(<<" ">>, line_words)

\* lines 152-155: words = entry.split(), and the loop's variables
SplitEntry ==
    /\ wpc = "split"
    /\ words' = Split(entry)
    /\ wi' = 1
    /\ current_line' = <<>>
    /\ current_length' = 0
    /\ is_first_line' = TRUE
    /\ wpc' = "loop"
    /\ UNCHANGED <<entry, lines, fmtVars, mainVars>>

\* lines 157-179: one iteration of `for word in words`
WrapWord ==
    /\ wpc = "loop"
    /\ wi <= Len(words)
    /\ LET word == words[wi]
           word_length == WordLength(word)
       IN  IF current_line = <<>> THEN
               /\ current_line' = <<word>>
               /\ current_length' = FirstWordLength(word)
               /\ UNCHANGED <<lines, is_first_line>>
           ELSE IF FitsOnCurrentLine(current_length, word_length) THEN
               /\ current_line' = Append(current_line, word)
               /\ current_length' = current_length + word_length
               /\ UNCHANGED <<lines, is_first_line>>
           ELSE
               /\ lines' = Append(lines, WrittenLine(is_first_line, current_line))
               /\ is_first_line' = FALSE
               /\ current_line' = <<word>>
               /\ current_length' = FirstWordLength(word)
    /\ wi' = wi + 1
    /\ UNCHANGED <<wpc, entry, words, fmtVars, mainVars>>

\* lines 181-186: the last line of the entry
WriteLastLine ==
    /\ wpc = "loop"
    /\ wi > Len(words)
    /\ lines' = IF current_line # <<>>
                THEN Append(lines, WrittenLine(is_first_line, current_line))
                ELSE lines
    /\ wpc' = "done"
    /\ UNCHANGED <<entry, words, wi, current_line, current_length, is_first_line,
                   fmtVars, mainVars>>

WrapNext == SplitEntry \/ WrapWord \/ WriteLastLine

WrapSpec == WrapInit /\ [][WrapNext]_vars

(***************************************************************************)
(* C10  Changelog entry wrapping: for an entry whose words are each at     *)
(* most 74 characters long, every line written for it (the first prefixed  *)
(* "    - ", the others by six spaces) is at most 80 characters long with  *)
(* its prefix, and the words of the lines written, read in order, are      *)
(* exactly the words of the entry.                                         *)
(***************************************************************************)
WordsAtMost(n) == \A k \in 1..Len(Split(entry)) : Len(Split(entry)[k]) <= n

Prefix(i) == IF i = 1 THEN <<" ", " ", " ", " ", "-", " ">> ELSE Spaces(6)

\* the words of the lines written so far, in order
RECURSIVE WordsOfLines(_)
WordsOfLines(ls) ==
    IF Len(ls) = 0 THEN <<>>
    ELSE Split(SubSeq(ls[1], 7, Len(ls[1]))) \o WordsOfLines(Tail(ls))

C10_EntryWrapping ==
    WordsAtMost(74) =>
        /\ \A i \in 1..Len(lines) :
              /\ Len(lines[i]) <= 80
              /\ SubSeq(lines[i], 1, 6) = Prefix(i)
              /\ Len(lines[i]) > 6
        /\ wpc = "loop" =>
              WordsOfLines(lines) \o current_line = SubSeq(Split(entry), 1, wi - 1)
        /\ wpc = "done" => WordsOfLines(lines) = Split(entry)

\* 36 and 37 characters share a line of exactly 80; the third word wraps
C10_Witness ==
    /\ wpc = "done"
    /\ Len(Split(entry)) = 3
    /\ Len(lines) = 2
    /\ Len(lines[1]) = 80
    /\ SubSeq(lines[2], 1, 6) = Spaces(6)

(***************************************************************************)
(* C11  The key-aware special case never changes the output:               *)
(* format_json_prettier returns the same text as the formatter that is     *)
(* format_value with lines 22-28 removed (the mapping branch always uses   *)
(* the recursively formatted value), because every scalar-only sequence    *)
(* that passes the key-aware test also passes the sequence branch's test.  *)
(***************************************************************************)
\* format_value without lines 22-28
RECURSIVE FormatValueWithoutKeyCheck(_, _)
FormatValueWithoutKeyCheck(value, current_indent) ==
    IF value.t = "dict" THEN
        IF IsEmpty(value) THEN <<"{", "}">>
        ELSE
            LET items == Items(value)
                n == Len(items)
                line(i) ==
                    DictEntryLine(current_indent, value.keys[items[i]],
                                  FormatValueWithoutKeyCheck(value.kids[items[i]],
                                                             current_indent + indent),
                                  Comma(i, n))
            IN  Join(NL, <<<<"{">>>> \o [i \in 1..n |-> line(i)]
                             \o <<ClosingLine(current_indent, "}")>>)
    ELSE IF value.t = "list" THEN
        IF IsEmpty(value) THEN <<"[", "]">>
        ELSE IF IsSimpleArray(value) /\ FitsOnLine(JsonDumps(value, FALSE))
        THEN JsonDumps(value, FALSE)
        ELSE
            LET n == Len(value.kids)
                line(i) == ListItemLine(current_indent,
                                        FormatValueWithoutKeyCheck(value.kids[i],
                                                                   current_indent + indent),
                                        Comma(i, n))
            IN  Join(NL, <<<<"[">>>> \o [i \in 1..n |-> line(i)]
                             \o <<ClosingLine(current_indent, "]")>>)
    ELSE JsonDumps(value, FALSE)

C11_KeyCheckChangesNothing ==
    Done =>
        /\ result = FormatValueWithoutKeyCheck(obj, 0)
        /\ \A c \in checks : c.fits => c.len <= max_line_length

\* {"a": [74 characters], "z": [75 characters]} at the defaults: the first
\* passes the key-aware test, the second fails it, both are written inline
C11_Witness ==
    /\ Done /\ indent = 2 /\ max_line_length = 80
    /\ obj = Dict(<<<<"a">>, <<"z">>>>, <<ListOfLen(74), ListOfLen(75)>>)
    /\ \E c \in checks : c.k = <<"a">> /\ c.fits /\ c.len = 74
    /\ \E c \in checks : c.k = <<"z">> /\ ~c.fits /\ c.len = 75
    /\ Parsed.ok
    /\ InlineUnderKey(Parsed.node, 1) /\ InlineUnderKey(Parsed.node, 2)
    /\ result = FormatValueWithoutKeyCheck(obj, 0)

====
